---- MODULE Spec2Model ----
(***************************************************************************)
(* Model of the Claude usage monitor (src/monitor.ts).  The file holds two *)
(* near-identical programs: the compact monitor (lines 1-482, one bordered *)
(* line plus a burn-rate mini graph) and the full monitor (lines 483-1016, *)
(* verbose or minimal display).  Both share calculateHourlyBurnRate,       *)
(* getNextResetTime, getTokenLimit and the body of the polling loop.       *)
(*                                                                         *)
(* Time: a Date is a count of seconds of local wall-clock time since       *)
(* 00:00:00 of day 0, or the invalid date (NaN).  The millisecond field of *)
(* a Date is not modelled (it is 0 in every Date of the model), and local  *)
(* days have 24 hours (no daylight-saving jumps).                          *)
(* Numbers: JavaScript doubles are modelled as exact rationals <<n, d>>,   *)
(* d > 0, in lowest terms; rounding of doubles is not modelled.            *)
(***************************************************************************)
EXTENDS Integers, Sequences, FiniteSets, TLC

VARIABLES
    mode,             \* which specification runs: "monitor" or a function harness
    pc,               \* position of main: "loop", "exit0", "exit1"; harness: "in", "out"
    program,          \* "compact" (lines 1-482) or "full" (lines 483-1016)
    plan,             \* showMenu's plan
    resetHour,        \* showMenu's resetHour: <<>> (undefined) or <<h>>
    displayMode,      \* showMenu's displayMode ("compact" program: "compact")
    tokenLimit,       \* main's let tokenLimit
    burnRateHistory,  \* module-level burnRateHistory (compact program)
    cursor,           \* terminal cursor: "shown" or "hidden"
    tick,             \* what the last loop iteration did and computed
    args,             \* harness: the arguments of the function under check
    result            \* harness: its result

vars == <<mode, pc, program, plan, resetHour, displayMode, tokenLimit,
          burnRateHistory, cursor, tick, args, result>>

(***************************************************************************)
(* Bounds of the model.                                                    *)
(***************************************************************************)
\* longest snapshot (number of blocks) the function harnesses enumerate
MaxBlocks == 2
\* largest seconds field of a clock reading the reset harness enumerates
MaxSecond == 1
\* longest snapshot ccusage reports to the monitor
MaxTickBlocks == 2
\* most samples of a busy session the compact monitor records in a run
MaxSamples == 3

(***************************************************************************)
(* Optional values: undefined is <<>>, a present value v is <<v>>.         *)
(***************************************************************************)
Undefined == <<>>
Some(v) == <<v>>
IsDefined(o) == o # <<>>
Get(o) == o[1]

(***************************************************************************)
(* Rationals for JavaScript numbers.                                       *)
(***************************************************************************)
Abs(x) == IF x < 0 THEN -x ELSE x

RECURSIVE Gcd(_, _)
Gcd(a, b) == IF b = 0 THEN a ELSE Gcd(b, a % b)

Rat(n, d) ==
    LET g == Gcd(Abs(n), Abs(d))
        s == IF d < 0 THEN -1 ELSE 1
    IN  <<(s * n) \div g, (s * d) \div g>>

RatInt(n) == <<n, 1>>
RatZero == <<0, 1>>
RatAdd(a, b) ==
    LET g == Gcd(a[2], b[2])
    IN  Rat(a[1] * (b[2] \div g) + b[1] * (a[2] \div g), (a[2] \div g) * b[2])
RatMul(a, b) ==
    LET g1 == Gcd(Abs(a[1]), b[2])
        g2 == Gcd(Abs(b[1]), a[2])
    IN  Rat((a[1] \div g1) * (b[1] \div g2), (a[2] \div g2) * (b[2] \div g1))
\* a / b for b # 0
RatDiv(a, b) == RatMul(a, Rat(b[2], b[1]))
RatPos(a) == a[1] > 0
\* Math.floor
Floor(a) == a[1] \div a[2]
\* truncation toward zero, as new Date(number) does (TimeClip)
Trunc(a) == IF a[1] >= 0 THEN a[1] \div a[2] ELSE -((-a[1]) \div a[2])

(***************************************************************************)
(* Dates.                                                                  *)
(***************************************************************************)
SecondsPerMinute == 60
SecondsPerHour == 60 * SecondsPerMinute
SecondsPerDay == 24 * SecondsPerHour

InvalidDate == [nan |-> TRUE, t |-> 0]
DateAt(t) == [nan |-> FALSE, t |-> t]
\* new Date(string) if every string named an instant
NewDate_Lenient(str) == DateAt(str.t)

\* new Date(string): a timestamp string is [ok, t]; an unparsable one gives
\* the invalid date, it does not throw
NewDate(str) == IF str.ok THEN DateAt(str.t) ELSE InvalidDate
\* relational operators on Dates compare their time values; any comparison
\* with NaN is false
DateLt(a, b) == ~a.nan /\ ~b.nan /\ a.t < b.t
DateGt(a, b) == ~a.nan /\ ~b.nan /\ a.t > b.t
DateLe(a, b) == ~a.nan /\ ~b.nan /\ a.t <= b.t
GetHours(d) == (d.t \div SecondsPerHour) % 24
GetMinutes(d) == (d.t \div SecondsPerMinute) % 60
GetSeconds(d) == d.t % 60
GetDay(d) == d.t \div SecondsPerDay
\* setDate(getDate() + 1)
AddOneDay(d) == DateAt(d.t + SecondsPerDay)
\* setHours(h, 0, 0, 0)
SetHours(d, h) == DateAt(GetDay(d) * SecondsPerDay + h * SecondsPerHour)

(***************************************************************************)
(* Usage blocks (interface Block, lines 6-12).  startTime and              *)
(* actualEndTime are optional timestamp strings; a string is [ok, t]: ok   *)
(* says whether Date can parse it, t is the instant it names.              *)
(***************************************************************************)
TimeString(t) == [ok |-> TRUE, t |-> t]
Malformed == [ok |-> FALSE, t |-> 0]

Block(startTime, actualEndTime, totalTokens, isGap, isActive) ==
    [startTime |-> startTime, actualEndTime |-> actualEndTime,
     totalTokens |-> totalTokens, isGap |-> isGap, isActive |-> isActive]

\* the sequences over S of length at most n
SeqsUpTo(S, n) == UNION {[1..k -> S] : k \in 0..n}

(***************************************************************************)
(* calculateHourlyBurnRate (lines 98-152 and 588-642).                     *)
(***************************************************************************)
\* (a.getTime() - b.getTime()) / 60000: NaN when either date is invalid
MinutesBetween(a, b) ==
    [nan |-> a.nan \/ b.nan, v |-> Rat(a.t - b.t, SecondsPerMinute)]

\* TokensInHour without the isGap test of lines 114-116
TokensInHour_CountsGaps(block, currentTime) ==
    LET oneHourAgo == DateAt(currentTime.t - 60 * 60)
    IN  IF ~IsDefined(block.startTime) THEN RatZero
        ELSE
        LET startTime == NewDate(Get(block.startTime))
            sessionActualEnd ==
                IF block.isActive \/ ~IsDefined(block.actualEndTime) THEN currentTime
                ELSE NewDate(Get(block.actualEndTime))
            sessionStartInHour ==
                IF DateGt(startTime, oneHourAgo) THEN startTime ELSE oneHourAgo
            sessionEndInHour ==
                IF DateLt(sessionActualEnd, currentTime) THEN sessionActualEnd
                ELSE currentTime
            totalSessionDuration == MinutesBetween(sessionActualEnd, startTime)
            hourDuration == MinutesBetween(sessionEndInHour, sessionStartInHour)
        IN  IF DateLt(sessionActualEnd, oneHourAgo) THEN RatZero
            ELSE IF DateLe(sessionEndInHour, sessionStartInHour) THEN RatZero
            ELSE IF ~totalSessionDuration.nan /\ RatPos(totalSessionDuration.v)
                 THEN RatMul(RatInt(block.totalTokens),
                             RatDiv(hourDuration.v, totalSessionDuration.v))
                 ELSE RatZero

\* TokensInHour without the pro-rating of line 146: a block in the window
\* adds all its tokens
TokensInHour_NoProRate(block, currentTime) ==
    LET oneHourAgo == DateAt(currentTime.t - 60 * 60)
    IN  IF ~IsDefined(block.startTime) THEN RatZero
        ELSE
        LET startTime == NewDate(Get(block.startTime))
            sessionActualEnd ==
                IF block.isActive \/ ~IsDefined(block.actualEndTime) THEN currentTime
                ELSE NewDate(Get(block.actualEndTime))
            sessionStartInHour ==
                IF DateGt(startTime, oneHourAgo) THEN startTime ELSE oneHourAgo
            sessionEndInHour ==
                IF DateLt(sessionActualEnd, currentTime) THEN sessionActualEnd
                ELSE currentTime
            totalSessionDuration == MinutesBetween(sessionActualEnd, startTime)
        IN  IF block.isGap THEN RatZero
            ELSE IF DateLt(sessionActualEnd, oneHourAgo) THEN RatZero
            ELSE IF DateLe(sessionEndInHour, sessionStartInHour) THEN RatZero
            ELSE IF ~totalSessionDuration.nan /\ RatPos(totalSessionDuration.v)
                 THEN RatInt(block.totalTokens)
                 ELSE RatZero

\* one iteration of the for loop: what the block adds to totalTokens
TokensInHour(block, currentTime) ==
    LET oneHourAgo == DateAt(currentTime.t - 60 * 60)
        startTimeStr == block.startTime
    IN  IF ~IsDefined(startTimeStr) THEN RatZero
        ELSE
        LET startTime == NewDate(Get(startTimeStr))
            sessionActualEnd ==
                IF block.isActive THEN currentTime
                ELSE IF IsDefined(block.actualEndTime)
                     THEN NewDate(Get(block.actualEndTime))
                     ELSE currentTime
            sessionStartInHour ==
                IF DateGt(startTime, oneHourAgo) THEN startTime ELSE oneHourAgo
            sessionEndInHour ==
                IF DateLt(sessionActualEnd, currentTime) THEN sessionActualEnd
                ELSE currentTime
            totalSessionDuration == MinutesBetween(sessionActualEnd, startTime)
            hourDuration == MinutesBetween(sessionEndInHour, sessionStartInHour)
            sessionTokens == block.totalTokens
        IN  IF block.isGap THEN RatZero
            ELSE IF DateLt(sessionActualEnd, oneHourAgo) THEN RatZero
            ELSE IF DateLe(sessionEndInHour, sessionStartInHour) THEN RatZero
            ELSE IF ~totalSessionDuration.nan /\ RatPos(totalSessionDuration.v)
                 THEN RatMul(RatInt(sessionTokens),
                             RatDiv(hourDuration.v, totalSessionDuration.v))
                 ELSE RatZero

RECURSIVE SumTokensInHour(_, _, _)
SumTokensInHour(blocks, i, currentTime) ==
    IF i > Len(blocks) THEN RatZero
    ELSE RatAdd(TokensInHour(blocks[i], currentTime),
                SumTokensInHour(blocks, i + 1, currentTime))

calculateHourlyBurnRate(blocks, currentTime) ==
    LET totalTokens == SumTokensInHour(blocks, 1, currentTime)
    IN  IF RatPos(totalTokens) THEN RatDiv(totalTokens, RatInt(60)) ELSE RatZero

(***************************************************************************)
(* getNextResetTime (lines 154-182 and 644-672).                           *)
(***************************************************************************)
DefaultResetHours == <<4, 9, 14, 18, 23>>

\* getNextResetTime with the test currentHour < hour alone (line 164 without
\* the exact-hour case)
getNextResetTime_StrictHour(currentTime, customResetHour) ==
    LET resetHours == IF IsDefined(customResetHour)
                      THEN <<Get(customResetHour)>> ELSE DefaultResetHours
        hits == {i \in 1..Len(resetHours) : GetHours(currentTime) < resetHours[i]}
        first == CHOOSE i \in hits : \A j \in hits : i <= j
    IN  IF hits = {}
        THEN SetHours(AddOneDay(currentTime), resetHours[1])
        ELSE SetHours(currentTime, resetHours[first])

getNextResetTime(currentTime, customResetHour) ==
    LET resetHours == IF IsDefined(customResetHour)
                      THEN <<Get(customResetHour)>> ELSE DefaultResetHours
        currentHour == GetHours(currentTime)
        currentMinute == GetMinutes(currentTime)
        \* the indices at which the for loop would break
        hits == {i \in 1..Len(resetHours) :
                    \/ currentHour < resetHours[i]
                    \/ (currentHour = resetHours[i] /\ currentMinute = 0)}
        first == CHOOSE i \in hits : \A j \in hits : i <= j
    IN  IF hits = {}
        THEN SetHours(AddOneDay(currentTime), resetHours[1])
        ELSE SetHours(currentTime, resetHours[first])

(***************************************************************************)
(* getTokenLimit (lines 184-204 and 674-694).  Its result is a JavaScript  *)
(* value: a number, or, when limits[plan] finds a property that the object *)
(* literal inherits from Object.prototype, that (truthy) function.         *)
(***************************************************************************)
ProLimit == 7000
Max5Limit == 35000
Max20Limit == 140000

JsNumber(n) == [type |-> "number", v |-> n]
\* a function value; v is unused (as a number it is NaN)
JsFunction == [type |-> "function", v |-> 0]

\* property names every object literal inherits from Object.prototype
ObjectPrototypeNames ==
    {"constructor", "toString", "valueOf", "hasOwnProperty", "isPrototypeOf"}

\* limits[plan]: own properties first, then the prototype chain
LimitsLookup(planId) ==
    CASE planId = "pro" -> Some(JsNumber(ProLimit))
      [] planId = "max5" -> Some(JsNumber(Max5Limit))
      [] planId = "max20" -> Some(JsNumber(Max20Limit))
      [] planId \in ObjectPrototypeNames -> Some(JsFunction)
      [] OTHER -> Undefined

\* the custom_max loop without the isActive test of line 188
RECURSIVE MaxTokensFrom_CountsActive(_, _, _)
MaxTokensFrom_CountsActive(blocks, i, maxTokens) ==
    IF i > Len(blocks) THEN maxTokens
    ELSE IF ~blocks[i].isGap /\ blocks[i].totalTokens > maxTokens
         THEN MaxTokensFrom_CountsActive(blocks, i + 1, blocks[i].totalTokens)
         ELSE MaxTokensFrom_CountsActive(blocks, i + 1, maxTokens)

\* the for loop of the custom_max branch, from block i on
RECURSIVE MaxTokensFrom(_, _, _)
MaxTokensFrom(blocks, i, maxTokens) ==
    IF i > Len(blocks) THEN maxTokens
    ELSE LET block == blocks[i]
             tokens == block.totalTokens
         IN  IF ~block.isGap /\ ~block.isActive /\ tokens > maxTokens
             THEN MaxTokensFrom(blocks, i + 1, tokens)
             ELSE MaxTokensFrom(blocks, i + 1, maxTokens)

\* blocks is optional: Undefined, or Some(array); an array, even an empty
\* one, is truthy
getTokenLimit(planId, blocks) ==
    IF planId = "custom_max" /\ IsDefined(blocks)
    THEN LET maxTokens == MaxTokensFrom(Get(blocks), 1, 0)
         IN  IF maxTokens > 0 THEN JsNumber(maxTokens) ELSE JsNumber(ProLimit)
    ELSE LET found == LimitsLookup(planId)
         IN  IF IsDefined(found) THEN Get(found) ELSE JsNumber(ProLimit)

(***************************************************************************)
(* The depletion prediction of a tick (lines 388-407 and 879-898).         *)
(***************************************************************************)
\* the prediction without the cap of lines 397-399
PredictedEndTime_NoCap(currentTime, burnRate, tokensLeft, resetTime) ==
    IF RatPos(burnRate) /\ tokensLeft > 0
    THEN LET calculatedEndTime ==
                 DateAt(currentTime.t
                        + Trunc(RatMul(RatDiv(RatInt(tokensLeft), burnRate),
                                       RatInt(SecondsPerMinute))))
         IN  IF DateLe(calculatedEndTime, currentTime) THEN resetTime
             ELSE calculatedEndTime
    ELSE resetTime

PredictedEndTime(currentTime, burnRate, tokensLeft, resetTime) ==
    IF RatPos(burnRate) /\ tokensLeft > 0
    THEN LET minutesToDepletion == RatDiv(RatInt(tokensLeft), burnRate)
             calculatedEndTime ==
                 DateAt(currentTime.t
                        + Trunc(RatMul(minutesToDepletion, RatInt(SecondsPerMinute))))
         IN  IF DateLe(calculatedEndTime, currentTime) THEN resetTime
             ELSE IF DateGt(calculatedEndTime, resetTime) THEN resetTime
             ELSE calculatedEndTime
    ELSE resetTime

(***************************************************************************)
(* runCcusage (lines 25-33 and 504-512): the value main receives.          *)
(*   "null"     the command failed or its output is not JSON (the catch     *)
(*              returns null), or the output is the JSON null               *)
(*   "noBlocks" a JSON value without a (truthy) blocks field                *)
(*   "nonArray" a blocks field that is truthy but not iterable, such as     *)
(*              {"blocks": 42} or {"blocks": {}}                            *)
(*   "array"    a blocks field that is an array of block records            *)
(***************************************************************************)
NullData == [kind |-> "null", blocks |-> <<>>]
NoBlocksData == [kind |-> "noBlocks", blocks |-> <<>>]
NonArrayData == [kind |-> "nonArray", blocks |-> <<>>]
ArrayData(blocks) == [kind |-> "array", blocks |-> blocks]

\* !data || !data.blocks
DataMissing(data) == data.kind \in {"null", "noBlocks"}

(***************************************************************************)
(* Progress bars (createCompactProgressBar 47-57, createTokenProgressBar   *)
(* 526-547).  String.prototype.repeat throws a RangeError for a negative   *)
(* count.                                                                  *)
(***************************************************************************)
CompactBarWidth == 20
TokenBarWidth == 50
MinimalBarWidth == 15

\* usagePercentage = tokenLimit > 0 ? (tokensUsed / tokenLimit) * 100 : 0
UsagePercentage(tokensUsed, limit) ==
    IF limit > 0 THEN RatMul(Rat(tokensUsed, limit), RatInt(100)) ELSE RatZero

\* filled = Math.floor(width * percentage / 100)
BarFilled(percentage, width) ==
    Floor(RatDiv(RatMul(RatInt(width), percentage), RatInt(100)))

\* '░'.repeat(width - filled) throws when width - filled < 0
BarThrows(percentage, width) == width - BarFilled(percentage, width) < 0

\* the width of the token bar each display draws (lines 429, 931, 954)
BarWidth(prog, display) ==
    IF prog = "compact" THEN CompactBarWidth
    ELSE IF display = "minimal" THEN MinimalBarWidth ELSE TokenBarWidth

(***************************************************************************)
(* The body of the polling loop (lines 326-457 and 837-991).               *)
(***************************************************************************)
HistoryCap == 120

\* the search without the break of line 339: the last active block
FirstActive_Last(blocks) ==
    LET hits == {i \in 1..Len(blocks) : blocks[i].isActive}
    IN  IF hits = {} THEN 0 ELSE CHOOSE i \in hits : \A j \in hits : i >= j

\* the for loop that looks for the active block: its index, 0 when none
FirstActive(blocks) ==
    LET hits == {i \in 1..Len(blocks) : blocks[i].isActive}
    IN  IF hits = {} THEN 0 ELSE CHOOSE i \in hits : \A j \in hits : i <= j

\* the plan-pro step without the test newLimit > tokenLimit of line 354
RatchetLimit_Unguarded(planId, tokensUsed, limit, blocks) ==
    IF tokensUsed > limit /\ planId = "pro"
    THEN getTokenLimit("custom_max", Some(blocks)).v
    ELSE limit

\* the plan-pro step with the test of line 354 inverted
RatchetLimit_Inverted(planId, tokensUsed, limit, blocks) ==
    IF tokensUsed > limit /\ planId = "pro"
    THEN LET newLimit == getTokenLimit("custom_max", Some(blocks)).v
         IN  IF newLimit < limit THEN newLimit ELSE limit
    ELSE limit

\* the step without the test plan === 'pro' of line 352
RatchetLimit_AnyPlan(planId, tokensUsed, limit, blocks) ==
    IF tokensUsed > limit
    THEN LET newLimit == getTokenLimit("custom_max", Some(blocks)).v
         IN  IF newLimit > limit THEN newLimit ELSE limit
    ELSE limit

\* lines 352-357 and 863-868: the limit after the plan-pro step
RatchetLimit(planId, tokensUsed, limit, blocks) ==
    IF tokensUsed > limit /\ planId = "pro"
    THEN LET newLimit == getTokenLimit("custom_max", Some(blocks)).v
         IN  IF newLimit > limit THEN newLimit ELSE limit
    ELSE limit

\* the reset time a tick uses (lines 383 and 875)
TickResetTime(currentTime, customResetHour) ==
    getNextResetTime(currentTime, Undefined)

\* the history with pop() in place of shift(): the newest sample is dropped
PushHistory_DropsNewest(history, burnRate) ==
    LET pushed == Append(history, burnRate)
    IN  IF Len(pushed) > 120 THEN SubSeq(pushed, 1, Len(pushed) - 1) ELSE pushed

\* burnRateHistory.push(burnRate); if (length > 120) shift()  (lines 378-381)
PushHistory(history, burnRate) ==
    LET pushed == Append(history, burnRate)
    IN  IF Len(pushed) > HistoryCap THEN Tail(pushed) ELSE pushed

\* what the display shows besides the metrics: the compact line's warning
\* icon (line 426), the verbose notifications (lines 968-984); the minimal
\* display shows none
Alerts(prog, display, planId, tokensUsed, limit, predictedEndTime, resetTime) ==
    IF prog = "compact"
    THEN IF tokensUsed > limit THEN {"exceeded"}
         ELSE IF DateLt(predictedEndTime, resetTime) THEN {"runsOut"} ELSE {}
    ELSE IF display = "minimal" THEN {}
    ELSE (IF tokensUsed > ProLimit /\ planId = "pro" /\ limit > ProLimit
          THEN {"switched"} ELSE {})
         \cup (IF tokensUsed > limit THEN {"exceeded"} ELSE {})
         \cup (IF DateLt(predictedEndTime, resetTime) THEN {"runsOut"} ELSE {})

\* a timestamp field that is present (a non-empty string) but not parsable
IsMalformed(field) == IsDefined(field) /\ ~Get(field).ok

HasMalformedTime(block) ==
    IsMalformed(block.startTime) \/ IsMalformed(block.actualEndTime)

IsActive(block) == block.isActive

\* the record of a loop iteration: how it ended ("failed", "noActive",
\* "rendered", "threw"), the kind of value runCcusage returned, the clock
\* reading, the values the iteration computed, and what was on the screen.
\* customMax is getTokenLimit('custom_max', data.blocks) of the iteration's
\* snapshot and limitBefore the tokenLimit the iteration started with;
\* historyBefore is the length burnRateHistory had then.  About the snapshot
\* the record keeps: firstActive, the totalTokens of the first of its active
\* blocks; malformed, whether one of its blocks has an unparsable timestamp;
\* malformedShare, what those blocks added to the sum of the burn rate.
\* interrupted says that a SIGINT was delivered to the process while the
\* iteration was executing (in execSync, or in the code behind it): its
\* handler is then pending.
NoTick ==
    [outcome |-> "none", fetched |-> "null", now |-> DateAt(0), tokensUsed |-> 0,
     customMax |-> 0, limitBefore |-> 0, historyBefore |-> 0,
     burnRate |-> RatZero,
     resetTime |-> DateAt(0), predictedEndTime |-> DateAt(0), alerts |-> {},
     firstActive |-> 0, malformed |-> FALSE, malformedShare |-> RatZero,
     interrupted |-> FALSE]

\* a tick that ends before any metric is computed (lines 330-334, 344-348,
\* or the for-of that throws)
Skipped(outcome, data, now, limit, history, interrupted) ==
    [NoTick EXCEPT !.outcome = outcome, !.fetched = data.kind, !.now = now,
                   !.interrupted = interrupted,
                   !.limitBefore = limit, !.historyBefore = Len(history),
                   !.malformed = \E i \in 1..Len(data.blocks) :
                                    HasMalformedTime(data.blocks[i]),
                   !.customMax = IF data.kind = "array"
                                 THEN getTokenLimit("custom_max", Some(data.blocks)).v
                                 ELSE 0]

(***************************************************************************)
(* Inputs of the monitor: what showMenu returns, what ccusage reports and  *)
(* what the clock reads.                                                   *)
(***************************************************************************)
Plans == {"pro", "max5", "max20", "custom_max"}
ResetHourChoices == {Undefined, Some(20)}

\* a clock reading on day 0
Clock(h, m, sec) == DateAt(h * SecondsPerHour + m * SecondsPerMinute + sec)
ClockString(h, m) == Some(TimeString(Clock(h, m, 0).t))

NowChoices == {Clock(10, 30, 0), Clock(9, 0, 1)}

\* the session in progress (started 08:50) with its tokens so far
ActiveBlock(tokens) == Block(ClockString(8, 50), Undefined, tokens, FALSE, TRUE)
\* a finished session of the night before (03:00 to 08:00)
ClosedBlock(tokens) == Block(ClockString(3, 0), ClockString(8, 0), tokens, FALSE, FALSE)
\* a gap placeholder
GapBlock(tokens) == Block(ClockString(8, 0), ClockString(8, 50), tokens, TRUE, FALSE)

TickBlockPool ==
    {ActiveBlock(7070), ActiveBlock(9000), ClosedBlock(8000), ClosedBlock(12000),
     GapBlock(20000)}

\* a session in progress whose startTime is not parsable
MalformedStartBlock(tokens) ==
    Block(Some(Malformed), Undefined, tokens, FALSE, TRUE)
\* a finished session (from 09:40) whose actualEndTime is not parsable
MalformedEndBlock(tokens) ==
    Block(ClockString(9, 40), Some(Malformed), tokens, FALSE, FALSE)

\* snapshots with an unparsable timestamp
MalformedSnapshots ==
    {<<MalformedStartBlock(6000)>>,
     <<ActiveBlock(7070), MalformedEndBlock(8000)>>}

\* what runCcusage may return: a fault, a snapshot of at most n blocks with
\* parsable timestamps, or a snapshot with an unparsable one
FetchResults(n) ==
    {NullData, NoBlocksData, NonArrayData}
        \cup {ArrayData(b) : b \in SeqsUpTo(TickBlockPool, n)}
        \cup {ArrayData(b) : b \in MalformedSnapshots}

(***************************************************************************)
(* main (lines 296-467 and 807-1001), from the return of showMenu on.      *)
(***************************************************************************)
Init ==
    /\ mode = "monitor"
    /\ pc = "start"
    /\ program = "full"
    /\ plan \in Plans
    /\ resetHour \in ResetHourChoices
    /\ displayMode \in {"verbose", "minimal"}
    /\ tokenLimit = 0
    /\ burnRateHistory = <<>>
    /\ cursor = "shown"
    /\ tick = NoTick
    /\ args = <<>>
    /\ result = <<>>

\* lines 310-324 (821-835): the initial limit, then clearScreen, hideCursor.
\* getTokenLimit's for-of over a blocks value that is not iterable throws
\* outside main's try: main().catch shows the cursor and exits with 1.
Startup(initialData) ==
    /\ mode = "monitor"
    /\ pc = "start"
    /\ IF plan = "custom_max" /\ initialData.kind = "nonArray"
       THEN /\ pc' = "exit1"
            /\ cursor' = "shown"
            /\ UNCHANGED tokenLimit
       ELSE /\ pc' = "loop"
            /\ cursor' = "hidden"
            /\ tokenLimit' =
                 IF plan = "custom_max"
                 THEN IF ~DataMissing(initialData)
                      THEN getTokenLimit(plan, Some(initialData.blocks)).v
                      ELSE getTokenLimit("pro", Undefined).v
                 ELSE getTokenLimit(plan, Undefined).v
    /\ UNCHANGED <<mode, program, plan, resetHour, displayMode, burnRateHistory,
                   tick, args, result>>

\* one iteration of while (true), from the end of the previous wait (or of
\* the startup, which runs into the first iteration without an await) to
\* the start of its own 3-second wait.  The iteration is synchronous: a
\* SIGINT delivered meanwhile (interrupted) waits for the event loop, and
\* with a handler pending from the previous iteration the handler runs
\* first.
Tick(data, currentTime) ==
    /\ mode = "monitor"
    /\ pc = "loop"
    /\ ~tick.interrupted
    /\ IF DataMissing(data)
       THEN \* "Failed to get usage data", wait, continue
            /\ \E interrupted \in BOOLEAN :
                  tick' = Skipped("failed", data, currentTime, tokenLimit,
                                  burnRateHistory, interrupted)
            /\ UNCHANGED <<pc, tokenLimit, burnRateHistory, cursor>>
       ELSE IF data.kind = "nonArray"
       THEN \* for (const block of data.blocks) throws a TypeError: the catch
            \* of main shows the cursor and rethrows, main().catch exits with 1
            /\ \E interrupted \in BOOLEAN :
                  tick' = Skipped("threw", data, currentTime, tokenLimit,
                                  burnRateHistory, interrupted)
            /\ pc' = "exit1"
            /\ cursor' = "shown"
            /\ UNCHANGED <<tokenLimit, burnRateHistory>>
       ELSE IF FirstActive(data.blocks) = 0
       THEN \* "No active session found", wait, continue
            /\ \E interrupted \in BOOLEAN :
                  tick' = Skipped("noActive", data, currentTime, tokenLimit,
                                  burnRateHistory, interrupted)
            /\ UNCHANGED <<pc, tokenLimit, burnRateHistory, cursor>>
       ELSE
         \* each value of the iteration is bound once, in the order the code
         \* computes it
         \E tokensUsed \in {data.blocks[FirstActive(data.blocks)].totalTokens},
            burnRate \in {calculateHourlyBurnRate(data.blocks, currentTime)},
            resetTime \in {TickResetTime(currentTime, resetHour)} :
         \E limit \in {RatchetLimit(plan, tokensUsed, tokenLimit, data.blocks)} :
         \E predictedEndTime \in
                {PredictedEndTime(currentTime, burnRate, limit - tokensUsed, resetTime)},
            threw \in {BarThrows(UsagePercentage(tokensUsed, limit),
                                 BarWidth(program, displayMode))} :
         \E rec \in
                {[outcome |-> IF threw THEN "threw" ELSE "rendered",
                  fetched |-> data.kind, now |-> currentTime,
                  tokensUsed |-> tokensUsed,
                  customMax |-> getTokenLimit("custom_max", Some(data.blocks)).v,
                  limitBefore |-> tokenLimit,
                  historyBefore |-> Len(burnRateHistory),
                  burnRate |-> burnRate, resetTime |-> resetTime,
                  predictedEndTime |-> predictedEndTime,
                  firstActive |-> Head(SelectSeq(data.blocks, IsActive)).totalTokens,
                  malformed |-> \E i \in 1..Len(data.blocks) :
                                   HasMalformedTime(data.blocks[i]),
                  malformedShare |->
                      SumTokensInHour(SelectSeq(data.blocks, HasMalformedTime), 1,
                                      currentTime),
                  interrupted |-> FALSE,
                  alerts |-> IF threw THEN {}
                             ELSE Alerts(program, displayMode, plan, tokensUsed,
                                         limit, predictedEndTime, resetTime)]} :
             /\ tokenLimit' = limit
             /\ burnRateHistory' =
                  IF program = "compact" THEN PushHistory(burnRateHistory, burnRate)
                  ELSE burnRateHistory
             /\ \E interrupted \in BOOLEAN :
                   tick' = [rec EXCEPT !.interrupted = interrupted]
             /\ pc' = IF threw THEN "exit1" ELSE pc
             /\ cursor' = IF threw THEN "shown" ELSE cursor
    /\ UNCHANGED <<mode, program, plan, resetHour, displayMode, args, result>>

\* the SIGINT handler (lines 469-474 and 1003-1008); handlers run only while
\* main is suspended at an await: the wait before the startup, or the wait
\* that ends an iteration.  The signal was delivered during that wait, or
\* during the iteration before it.
Sigint ==
    /\ mode = "monitor"
    /\ pc = "start" \/ (pc = "loop" /\ tick.outcome # "none")
    /\ cursor' = "shown"
    /\ pc' = "exit0"
    /\ UNCHANGED <<mode, program, plan, resetHour, displayMode, tokenLimit,
                   burnRateHistory, tick, args, result>>

Next ==
    \/ pc = "start" /\ \E initialData \in FetchResults(MaxTickBlocks) :
                          Startup(initialData)
    \/ pc = "loop" /\ \E data \in FetchResults(MaxTickBlocks), currentTime \in NowChoices :
                         Tick(data, currentTime)
    \/ Sigint

Spec == Init /\ [][Next]_vars

(***************************************************************************)
(* The compact monitor (lines 1-482): the same loop with the single-line   *)
(* display and the burn-rate history of the mini graph.  A run starts      *)
(* after showMenu, or is picked up after 118 ticks of an idle session      *)
(* (an active block without tokens yet, burn rate 0) at 10:30.             *)
(***************************************************************************)
IdleRate == RatZero
IdleTicks == HistoryCap - 2
IdleHistory == [i \in 1..IdleTicks |-> IdleRate]

\* the record of the last of those ticks
IdleTick(limit) ==
    [NoTick EXCEPT !.outcome = "rendered", !.fetched = "array",
                   !.now = Clock(10, 30, 0), !.customMax = ProLimit,
                   !.limitBefore = limit, !.historyBefore = IdleTicks - 1,
                   !.resetTime = TickResetTime(Clock(10, 30, 0), Undefined),
                   !.predictedEndTime = TickResetTime(Clock(10, 30, 0), Undefined)]

\* what runCcusage returns to the compact monitor: a fault, a snapshot
\* without active block, a session in progress, or two of them
CompactFetchResults ==
    {NullData, ArrayData(<<ClosedBlock(8000)>>), ArrayData(<<ActiveBlock(600)>>),
     ArrayData(<<ActiveBlock(1200)>>), ArrayData(<<ActiveBlock(9000)>>),
     ArrayData(<<ClosedBlock(8000), ActiveBlock(1200), ActiveBlock(600)>>)}

\* the samples of the history that stem from a busy session
BusySamples(history) == Cardinality({i \in 1..Len(history) : history[i] # IdleRate})

CompactInit ==
    /\ mode = "monitor"
    /\ program = "compact"
    /\ plan \in Plans
    /\ resetHour \in ResetHourChoices
    /\ displayMode = "compact"
    /\ args = <<>>
    /\ result = <<>>
    /\ \/ /\ pc = "start"
          /\ tokenLimit = 0
          /\ burnRateHistory = <<>>
          /\ cursor = "shown"
          /\ tick = NoTick
       \/ /\ pc = "loop"
          /\ tokenLimit = getTokenLimit(plan, Undefined).v
          /\ burnRateHistory = IdleHistory
          /\ cursor = "hidden"
          /\ tick = IdleTick(tokenLimit)

CompactNext ==
    \/ pc = "start" /\ \E initialData \in CompactFetchResults : Startup(initialData)
    \/ pc = "loop" /\ BusySamples(burnRateHistory) < MaxSamples
          /\ \E data \in CompactFetchResults, currentTime \in NowChoices :
                 Tick(data, currentTime)
    \/ Sigint

CompactSpec == CompactInit /\ [][CompactNext]_vars

(***************************************************************************)
(* Function harnesses: one call of a function on arguments drawn from a    *)
(* bounded set.  The monitor's variables keep the values of HarnessInit.   *)
(***************************************************************************)
HarnessInit(m) ==
    /\ mode = m
    /\ pc = "in"
    /\ program = "full"
    /\ plan = "pro"
    /\ resetHour = Undefined
    /\ displayMode = "verbose"
    /\ tokenLimit = 0
    /\ burnRateHistory = <<>>
    /\ cursor = "shown"
    /\ tick = NoTick
    /\ args = <<>>
    /\ result = <<>>

HarnessCall(m, a, r) ==
    /\ mode = m
    /\ pc = "in"
    /\ pc' = "out"
    /\ args' = a
    /\ result' = r
    /\ UNCHANGED <<mode, program, plan, resetHour, displayMode, tokenLimit,
                   burnRateHistory, cursor, tick>>

\* ---- the depletion prediction ----
PredictNows == {Clock(10, 30, 0), Clock(23, 59, 59)}
\* burn rates in tokens per minute: negative, zero, fractional, and one so
\* high that the depletion falls within the clock's resolution
PredictRates == {<<-5, 1>>, RatZero, <<1, 3>>, <<1, 1>>, <<50, 1>>, <<707, 10>>,
                 <<100000, 1>>}
PredictTokensLeft == {-2000, 0, 1, 100, 930, 7000}
\* reset times before, at and after the clock reading (seconds from it)
PredictResetOffsets == {-60, 0, 1, 120, 6000, 12600, 86400}
PredictArgs ==
    {[now |-> n, burnRate |-> r, tokensLeft |-> left, resetTime |-> DateAt(n.t + o)] :
        n \in PredictNows, r \in PredictRates, left \in PredictTokensLeft,
        o \in PredictResetOffsets}

PredictInit == HarnessInit("predict")
PredictCall(a) ==
    HarnessCall("predict", a,
                PredictedEndTime(a.now, a.burnRate, a.tokensLeft, a.resetTime))
PredictNext == pc = "in" /\ \E a \in PredictArgs : PredictCall(a)
PredictSpec == PredictInit /\ [][PredictNext]_vars

\* ---- getNextResetTime ----
ResetArgs(maxSec) ==
    [now : {Clock(h, m, sec) : h \in 0..23, m \in 0..59, sec \in 0..maxSec},
     customResetHour : {Undefined} \cup {Some(h) : h \in 0..23}]

ResetInit == HarnessInit("reset")
ResetCall(a) ==
    HarnessCall("reset", a, getNextResetTime(a.now, a.customResetHour))
ResetNext == pc = "in" /\ \E a \in ResetArgs(MaxSecond) : ResetCall(a)
ResetSpec == ResetInit /\ [][ResetNext]_vars

\* ---- getTokenLimit ----
PlanIds == Plans \cup {"enterprise", "", "constructor", "toString"}
LimitBlockPool ==
    {Block(ClockString(3, 0), ClockString(8, 0), tokens, isGap, isActive) :
        tokens \in {0, 5000, 9000}, isGap \in BOOLEAN, isActive \in BOOLEAN}
LimitArgs(n) ==
    [plan : PlanIds,
     blocks : {Undefined} \cup {Some(b) : b \in SeqsUpTo(LimitBlockPool, n)}]

LimitInit == HarnessInit("limit")
LimitCall(a) == HarnessCall("limit", a, getTokenLimit(a.plan, a.blocks))
LimitNext == pc = "in" /\ \E a \in LimitArgs(MaxBlocks) : LimitCall(a)
LimitSpec == LimitInit /\ [][LimitNext]_vars

\* ---- calculateHourlyBurnRate ----
BurnNow == Clock(10, 0, 0)
\* a timestamp m minutes after BurnNow (before it, for m < 0)
At(m) == Some(TimeString(BurnNow.t + m * SecondsPerMinute))
\* tokens by kind of block, so that no two kinds contribute alike
BurnTokens(isGap, isActive) ==
    IF isGap THEN 1200 ELSE IF isActive THEN 900 ELSE 600
BurnBlockPool ==
    {Block(startTime, actualEndTime, BurnTokens(isGap, isActive), isGap, isActive) :
        startTime \in {Undefined, At(-120), At(-30), At(0), At(10)},
        actualEndTime \in {Undefined, At(-90), At(-60), At(-10)},
        isGap \in BOOLEAN, isActive \in BOOLEAN}
BurnArgs(n) == [blocks : SeqsUpTo(BurnBlockPool, n), now : {BurnNow}]

BurnInit == HarnessInit("burn")
BurnCall(a) == HarnessCall("burn", a, calculateHourlyBurnRate(a.blocks, a.now))
BurnNext == pc = "in" /\ \E a \in BurnArgs(MaxBlocks) : BurnCall(a)
BurnSpec == BurnInit /\ [][BurnNext]_vars

(***************************************************************************)
(* Properties.                                                             *)
(***************************************************************************)
Ticked == tick.outcome \in {"rendered", "threw"} /\ tick.fetched = "array"
        /\ tick.tokensUsed > 0

\* the candidate of C1 as a Date: now plus tokensLeft / burnRate minutes,
\* for a positive burn rate
CandidateEnd(a) ==
    DateAt(a.now.t + (a.tokensLeft * SecondsPerMinute * a.burnRate[2]) \div a.burnRate[1])

\* C1: the predicted end time is the candidate now + tokensLeft / burnRate
\* minutes when burnRate > 0, tokensLeft > 0 and now < candidate <= resetTime,
\* and resetTime in every other case; it is never later than resetTime.
C1_PredictedEnd ==
    (mode = "predict" /\ pc = "out") =>
        LET depleting == args.burnRate[1] > 0 /\ args.tokensLeft > 0
            inWindow == /\ depleting
                        /\ args.now.t < CandidateEnd(args).t
                        /\ CandidateEnd(args).t <= args.resetTime.t
        IN  /\ inWindow => result = CandidateEnd(args)
            /\ ~inWindow => result = args.resetTime
            /\ ~result.nan /\ result.t <= args.resetTime.t

\* C1 witness: a call that returns a candidate strictly before the reset
C1_Witness ==
    /\ mode = "predict" /\ pc = "out"
    /\ args.burnRate[1] > 0 /\ args.tokensLeft > 0
    /\ result = CandidateEnd(args)
    /\ args.now.t < result.t /\ result.t < args.resetTime.t

\* C2: no step of the polling loop lowers the token limit.
C2_LimitNeverDecreases == [][pc = "loop" => tokenLimit' >= tokenLimit]_vars

\* C2 witness: a rendered tick that raised the limit
C2_Witness ==
    /\ mode = "monitor" /\ pc = "loop" /\ tick.outcome = "rendered"
    /\ tokenLimit > tick.limitBefore

\* C3 as stated: on plan pro, a tick whose active block exceeds the pro limit
\* (7000) while the custom_max limit of its snapshot exceeds the current
\* limit ends with the limit set to that custom_max limit.
C3_Original ==
    (mode = "monitor" /\ plan = "pro" /\ Ticked
        /\ tick.tokensUsed > ProLimit /\ tick.customMax > tick.limitBefore)
    => tokenLimit = tick.customMax

\* C3 amended: on plan pro, a tick whose active block exceeds the current
\* token limit (the limit the tick starts with) while the custom_max limit of
\* its snapshot exceeds that limit ends with the limit set to that custom_max
\* limit.
C3_RaisedWhenOverCurrentLimit ==
    (mode = "monitor" /\ plan = "pro" /\ Ticked
        /\ tick.tokensUsed > tick.limitBefore /\ tick.customMax > tick.limitBefore)
    => tokenLimit = tick.customMax

\* C3 witness: such a tick, rendered, after which the limit is the custom_max
\* limit of the snapshot
C3_Witness ==
    /\ mode = "monitor" /\ plan = "pro" /\ tick.outcome = "rendered"
    /\ tick.tokensUsed > tick.limitBefore /\ tick.customMax > tick.limitBefore
    /\ tokenLimit = tick.customMax

\* C4: with a custom reset hour h configured, the reset time of every
\* rendered tick is at h:00, computed from the schedule [h].
C4_CustomResetHourUsed ==
    (mode = "monitor" /\ tick.outcome = "rendered" /\ IsDefined(resetHour))
    => /\ GetHours(tick.resetTime) = Get(resetHour)
       /\ tick.resetTime = getNextResetTime(tick.now, resetHour)

\* C5: a tick whose fetch fails or returns an invalid structure (null, no
\* blocks field, a blocks field that is not a list) is skipped as a failed
\* fetch and never ends the loop with an error.
C5_InvalidDataNeverFatal ==
    (mode = "monitor" /\ tick.outcome # "none"
        /\ tick.fetched \in {"null", "noBlocks", "nonArray"})
    => tick.outcome = "failed" /\ pc # "exit1"

\* C6: a tick whose active block exceeds the current token limit completes
\* its rendering with the exceeded-limit alert and the loop goes on.
C6_ExceededLimitRendered ==
    (mode = "monitor" /\ Ticked /\ tick.tokensUsed > tokenLimit)
    => /\ tick.outcome = "rendered"
       /\ "exceeded" \in tick.alerts
       /\ pc # "exit1"

\* the schedule C7 speaks of
Schedule(customResetHour) ==
    IF IsDefined(customResetHour) THEN <<Get(customResetHour)>> ELSE <<4, 9, 14, 18, 23>>

\* hour s is still pending at hour H, minute M
Pending(s, H, M) == s > H \/ (s = H /\ M = 0)

\* C7: getNextResetTime returns, with minutes and seconds zero, the first
\* hour s of the schedule with s > H or (s = H and M = 0), on the day of now,
\* and the first hour of the schedule on the following day when there is no
\* such s; 10:30 gives 14:00 the same day, 23:30 gives 04:00 the next day and
\* 04:00 gives 04:00 the same day.
C7_NextResetTime ==
    (mode = "reset" /\ pc = "out") =>
        LET S == Schedule(args.customResetHour)
            H == GetHours(args.now)
            M == GetMinutes(args.now)
            today == GetDay(args.now)
        IN  /\ ~result.nan
            /\ GetMinutes(result) = 0 /\ GetSeconds(result) = 0
            /\ (\E i \in 1..Len(S) : Pending(S[i], H, M))
                 => /\ GetDay(result) = today
                    /\ \E i \in 1..Len(S) :
                          /\ Pending(S[i], H, M)
                          /\ \A j \in 1..(i - 1) : ~Pending(S[j], H, M)
                          /\ GetHours(result) = S[i]
            /\ (\A i \in 1..Len(S) : ~Pending(S[i], H, M))
                 => GetDay(result) = today + 1 /\ GetHours(result) = S[1]
            /\ (args.customResetHour = Undefined /\ H = 10 /\ M = 30)
                 => result = Clock(14, 0, 0)
            /\ (args.customResetHour = Undefined /\ H = 23 /\ M = 30)
                 => result = DateAt(SecondsPerDay + Clock(4, 0, 0).t)
            /\ (args.customResetHour = Undefined /\ args.now = Clock(4, 0, 0))
                 => result = Clock(4, 0, 0)

\* C7 witness: a call at an exact scheduled hour, answered with that hour
C7_Witness ==
    /\ mode = "reset" /\ pc = "out"
    /\ GetMinutes(args.now) = 0
    /\ GetHours(result) = GetHours(args.now) /\ GetDay(result) = GetDay(args.now)

\* the totalTokens of the blocks of a snapshot that are neither gap nor active
CompletedTokens(blocks) ==
    {blocks[i].totalTokens : i \in {j \in 1..Len(blocks) :
                                      ~blocks[j].isGap /\ ~blocks[j].isActive}}

SetMax(S) == CHOOSE x \in S : \A y \in S : y <= x

IsCompleted(block) == ~block.isGap /\ ~block.isActive

\* C8: getTokenLimit('custom_max', blocks) is the largest totalTokens of the
\* blocks that are neither gap nor active, and 7000 when there is none or the
\* largest is zero; gap and active blocks do not influence it.
C8_CustomMax ==
    (mode = "limit" /\ pc = "out" /\ args.plan = "custom_max" /\ IsDefined(args.blocks))
    => LET blocks == Get(args.blocks)
           tokens == CompletedTokens(blocks)
       IN  /\ result = JsNumber(IF tokens = {} \/ SetMax(tokens) = 0
                                THEN 7000 ELSE SetMax(tokens))
           /\ result = getTokenLimit("custom_max", Some(SelectSeq(blocks, IsCompleted)))

\* C8 witness: a snapshot whose active block holds more tokens than its
\* largest completed block, which decides the result
C8_Witness ==
    /\ mode = "limit" /\ pc = "out" /\ args.plan = "custom_max" /\ IsDefined(args.blocks)
    /\ \E i, j \in 1..Len(Get(args.blocks)) :
          /\ Get(args.blocks)[i].isActive /\ ~Get(args.blocks)[i].isGap
          /\ IsCompleted(Get(args.blocks)[j])
          /\ Get(args.blocks)[i].totalTokens > Get(args.blocks)[j].totalTokens
          /\ result = JsNumber(Get(args.blocks)[j].totalTokens)

\* C9: getTokenLimit returns 7000 for pro, 35000 for max5, 140000 for max20
\* and 7000 for every other plan identifier, and for custom_max without
\* history.
C9_FixedPlans ==
    (mode = "limit" /\ pc = "out"
        /\ ~(args.plan = "custom_max" /\ IsDefined(args.blocks)))
    => result = JsNumber(CASE args.plan = "pro" -> 7000
                           [] args.plan = "max5" -> 35000
                           [] args.plan = "max20" -> 140000
                           [] OTHER -> 7000)

\* the end of a block as the burn rate sees it: now for an active block or a
\* block without actualEndTime (timestamps well formed)
EffectiveEnd(block, now) ==
    IF block.isActive \/ ~IsDefined(block.actualEndTime) THEN now.t
    ELSE Get(block.actualEndTime).t

\* the blocks C10 speaks of
NonContributing(block, now) ==
    \/ block.isGap
    \/ ~IsDefined(block.startTime)
    \/ EffectiveEnd(block, now) < now.t - 3600
    \/ LET from == IF Get(block.startTime).t > now.t - 3600
                   THEN Get(block.startTime).t ELSE now.t - 3600
           to == IF EffectiveEnd(block, now) < now.t
                 THEN EffectiveEnd(block, now) ELSE now.t
       IN  to <= from

Contributes(block) == ~NonContributing(block, BurnNow)

\* C10: a block that is a gap, has no startTime, ended more than 60 minutes
\* before now or does not overlap the last 60 minutes contributes exactly 0:
\* the burn rate of a snapshot is that of the snapshot without such blocks,
\* and it is 0 when the snapshot holds only such blocks.
C10_NonContributingBlocks ==
    (mode = "burn" /\ pc = "out") =>
        /\ \A i \in 1..Len(args.blocks) :
              NonContributing(args.blocks[i], args.now)
                 => TokensInHour(args.blocks[i], args.now) = RatZero
        /\ result = calculateHourlyBurnRate(SelectSeq(args.blocks, Contributes), args.now)
        /\ (\A i \in 1..Len(args.blocks) : NonContributing(args.blocks[i], args.now))
              => result = RatZero

\* C10 witness: a snapshot with a gap block inside the window next to a
\* block that contributes, and a positive burn rate
C10_Witness ==
    /\ mode = "burn" /\ pc = "out" /\ Len(args.blocks) = 2
    /\ args.blocks[1].isGap /\ IsDefined(args.blocks[1].startTime)
    /\ Get(args.blocks[1].startTime).t < args.now.t
    /\ ~NonContributing(args.blocks[2], args.now)
    /\ result[1] > 0

Min(a, b) == IF a < b THEN a ELSE b
Max(a, b) == IF a > b THEN a ELSE b

\* W and D of C11 for a block with a well-formed startTime, in seconds
WindowW(block, now) ==
    Min(EffectiveEnd(block, now), now.t) - Max(Get(block.startTime).t, now.t - 3600)
WindowD(block, now) == EffectiveEnd(block, now) - Get(block.startTime).t

\* the blocks C11 sums over
Qualifying(block, now) ==
    /\ ~NonContributing(block, now)
    /\ WindowD(block, now) > 0

\* the sum over the qualifying blocks from i on of totalTokens * W / D, as a
\* fraction <<numerator, denominator>> (W / D in lowest terms, the sum not
\* reduced)
RECURSIVE WindowSum(_, _, _)
WindowSum(blocks, i, now) ==
    IF i > Len(blocks) THEN <<0, 1>>
    ELSE LET rest == WindowSum(blocks, i + 1, now)
         IN  IF Qualifying(blocks[i], now)
             THEN LET g == Gcd(WindowW(blocks[i], now), WindowD(blocks[i], now))
                      w == WindowW(blocks[i], now) \div g
                      d == WindowD(blocks[i], now) \div g
                  IN  <<blocks[i].totalTokens * w * rest[2] + rest[1] * d,
                        d * rest[2]>>
             ELSE rest

\* C11: for well-formed timestamps and non-negative totalTokens the burn rate
\* is one sixtieth of the sum over the qualifying blocks of
\* totalTokens * W / D, with E = now for an active block or a block without
\* actualEndTime and E = actualEndTime otherwise, D = E - startTime and
\* W = min(E, now) - max(startTime, now - 60 min); it is never negative.
C11_BurnRateFormula ==
    (mode = "burn" /\ pc = "out") =>
        LET sum == WindowSum(args.blocks, 1, args.now)
        IN  /\ result[2] > 0
            /\ result[1] >= 0
            /\ result[1] * (60 * sum[2]) = sum[1] * result[2]

\* C11 witness: a snapshot of two qualifying blocks, one of them only partly
\* inside the window, with a positive burn rate
C11_Witness ==
    /\ mode = "burn" /\ pc = "out" /\ Len(args.blocks) = 2
    /\ \A i \in 1..2 : Qualifying(args.blocks[i], args.now)
    /\ WindowW(args.blocks[1], args.now) < WindowD(args.blocks[1], args.now)
    /\ WindowW(args.blocks[2], args.now) = WindowD(args.blocks[2], args.now)
    /\ result[1] > 0

LastN(seq, n) ==
    IF Len(seq) <= n THEN seq ELSE SubSeq(seq, Len(seq) - n + 1, Len(seq))

\* C13: the burn-rate history never holds more than 120 samples; a rendered
\* tick appends its burn rate at the tail and, when that makes 121, drops the
\* oldest sample, so that the history is the last 120 of the samples in
\* arrival order; a skipped tick appends nothing.
C13_HistoryFifo ==
    [][(program = "compact" /\ pc = "loop" /\ pc' # "exit0") =>
          /\ Len(burnRateHistory') <= 120
          /\ tick'.outcome = "rendered"
               => /\ burnRateHistory'
                       = LastN(burnRateHistory \o <<tick'.burnRate>>, 120)
                  /\ Len(burnRateHistory') = IF Len(burnRateHistory) < 120
                                             THEN Len(burnRateHistory) + 1 ELSE 120
          /\ tick'.outcome \in {"failed", "noActive"}
               => burnRateHistory' = burnRateHistory]_vars

\* C13 witness: a rendered tick that found the history full, after which it
\* holds 120 samples ending with the tick's burn rate behind the one before
C13_Witness ==
    /\ mode = "monitor" /\ program = "compact" /\ tick.outcome = "rendered"
    /\ tick.historyBefore = 120 /\ Len(burnRateHistory) = 120
    /\ burnRateHistory[120] = tick.burnRate
    /\ burnRateHistory[119] # IdleRate
    /\ burnRateHistory[119] # burnRateHistory[120]

\* C14: an interrupt signal is acted on only at a wait, never inside an
\* iteration, and a signal delivered once monitoring has started always ends
\* with the cursor shown and the process exiting with status 0.
C14_InterruptExitsZero ==
    /\ (mode = "monitor" /\ pc = "exit0")
         => cursor = "shown" /\ tick.outcome \in {"none", "failed", "noActive", "rendered"}
    /\ (mode = "monitor" /\ tick.interrupted /\ pc \in {"exit0", "exit1"})
         => pc = "exit0" /\ cursor = "shown"

\* C15: in the verbose display on plan pro, every rendered tick whose active
\* block exceeds the Pro limit of 7000 shows the "switched to custom_max"
\* warning, and the limit in force is the custom_max limit of its snapshot.
C15_SwitchedWarningShown ==
    (mode = "monitor" /\ program = "full" /\ displayMode = "verbose" /\ plan = "pro"
        /\ tick.outcome = "rendered" /\ tick.tokensUsed > 7000)
    => /\ "switched" \in tick.alerts
       /\ tokenLimit = tick.customMax

\* C16: only the plan-pro step changes the token limit: on max5, max20 and
\* custom_max no step of the loop changes the limit computed at startup,
\* and on pro no tick whose active block does not exceed the current limit
\* changes it.
C16_LimitFrame ==
    [][(mode = "monitor" /\ pc = "loop") =>
          /\ plan # "pro" => tokenLimit' = tokenLimit
          /\ (plan = "pro" /\ tick'.tokensUsed <= tokenLimit)
               => tokenLimit' = tokenLimit]_vars

\* C16 witness: on plan custom_max, a rendered tick whose active block
\* exceeds the limit while its snapshot holds a larger completed block, and
\* the limit is the one the tick started with
C16_Witness ==
    /\ mode = "monitor" /\ plan = "custom_max" /\ tick.outcome = "rendered"
    /\ tick.tokensUsed > tick.limitBefore /\ tick.customMax > tick.limitBefore
    /\ tokenLimit = tick.limitBefore

\* C17: a tick that is skipped because the fetch failed or because the
\* snapshot holds no active block computes and shows no metric and leaves
\* the token limit and the burn-rate history as they were; the tokens used
\* of a rendered tick are the totalTokens of the first active block of the
\* snapshot.
C17_SkippedTickFrame ==
    [][(mode = "monitor" /\ pc = "loop" /\ pc' # "exit0") =>
          /\ tick'.outcome \in {"failed", "noActive"}
               => /\ tokenLimit' = tokenLimit
                  /\ burnRateHistory' = burnRateHistory
                  /\ tick'.alerts = {} /\ tick'.tokensUsed = 0
                  /\ tick'.burnRate = NoTick.burnRate
                  /\ tick'.predictedEndTime = NoTick.predictedEndTime
                  /\ pc' = "loop"
          /\ tick'.outcome = "rendered"
               => tick'.tokensUsed = tick'.firstActive]_vars

\* C17 witness: a snapshot without active block arrived when the history
\* held samples of a busy session, and the history and the limit are what
\* they were
C17_Witness ==
    /\ mode = "monitor" /\ program = "compact" /\ tick.outcome = "noActive"
    /\ Len(burnRateHistory) = tick.historyBefore
    /\ BusySamples(burnRateHistory) > 0
    /\ tokenLimit = tick.limitBefore

\* C18: for every now and every schedule the time getNextResetTime returns
\* is not earlier than now.
C18_ResetNotBeforeNow ==
    (mode = "reset" /\ pc = "out") => ~result.nan /\ result.t >= args.now.t

====
